---- MODULE Spec2Model ----
(***************************************************************************)
(* Model of src/server.js: the socket.io link checker.  One channel        *)
(* (socket) receives start-crawl / stop-crawl / disconnect commands; each  *)
(* accepted start-crawl constructs a Crawler whose start() runs the        *)
(* frontier loop and whose processExternalQueue()/checkExternalLink()      *)
(* verify external links with at most maxConcurrency requests in flight.   *)
(*                                                                         *)
(* Node runs every callback to its next await without interruption, so one *)
(* action is one such run: a socket handler, the continuation of           *)
(* crawler.start() after an awaited fetch or timer, or the continuation of *)
(* checkExternalLink() after an awaited HEAD/GET together with the         *)
(* .finally() callback chained on it.                                      *)
(*                                                                         *)
(* A URL string is a record [scheme, host, path, hash]; a host name is a   *)
(* sequence of one-character strings so that endsWith('.' + domain) is     *)
(* computed on characters.  'log' events carry free text and are omitted;  *)
(* 'progress', 'broken-link', 'finished' and 'error' events are recorded   *)
(* per crawler.                                                            *)
(***************************************************************************)
EXTENDS Integers, Sequences, FiniteSets, TLC

VARIABLES
    crawlers,      \* every Crawler constructed on the channel, in order of construction
    crawler,       \* the handler closure's `let crawler`: index into crawlers, 0 = undefined
    connected,     \* the socket is connected (commands can still arrive)
    starts,        \* the data of the start-crawl commands received so far
    socketErrors   \* 'error' events emitted by the start-crawl handler itself

vars == <<crawlers, crawler, connected, starts, socketErrors>>

----------------------------------------------------------------------------
(* Bounds and program constants *)

\* the load one channel receives in a run: a start-crawl command for a crawl of the
\* whole site counts 2, any other start-crawl command counts 1
MaxLoad == 2

\* this.maxConcurrency
maxConcurrency == 5
\* options.maxPages || 50
DefaultMaxPages == 50
\* options.maxDepth || 3
DefaultMaxDepth == 3
\* the status 'Error' given to reportBroken on a transport failure
ErrorMarker == -1
\* 405 Method Not Allowed, the HEAD status exempted from the GET fallback
MethodNotAllowed == 405
\* first status reported as broken
BrokenFrom == 400

----------------------------------------------------------------------------
(* Strings and URLs *)

EndsWith(s, t) ==
    /\ Len(t) <= Len(s)
    /\ SubSeq(s, Len(s) - Len(t) + 1, Len(s)) = t

Url(scheme, host, path, hash) ==
    [scheme |-> scheme, host |-> host, path |-> path, hash |-> hash]

\* the null returned by normalizeUrl
Null == Url("null", <<>>, "", "")

\* the source given to reportBroken for a frontier page
SeedSource == Url("seed", <<>>, "", "")

HttpSchemes == {"http", "https"}

\* the schemes of the URLs below whose text begins with "http"
HttpPrefixed == {"http", "https", "httpx"}

\* url.startsWith('http'): a test of the first four characters of the string
StartsWithHttp(u) == u.scheme \in HttpPrefixed

\* new URL(s) succeeds: an http(s) URL needs a host; a relative reference has no base
Parses(u) ==
    /\ u.scheme \notin {"null", "rel", "seed"}
    /\ (u.scheme \in HttpSchemes => u.host # <<>>)

\* parsed.toString(): an empty path of an http(s) URL is serialized as "/"
Serialize(u) ==
    IF u.scheme \in HttpSchemes /\ u.path = "" THEN [u EXCEPT !.path = "/"] ELSE u

normalizeUrl(u) ==
    IF Parses(u) THEN [Serialize(u) EXCEPT !.hash = ""] ELSE Null

\* new URL(href, base).toString(); Null stands for the TypeError it throws
Resolve(href, base) ==
    IF href.scheme = "rel"
    THEN Serialize([base EXCEPT !.path = IF href.path = "" THEN base.path ELSE href.path,
                                !.hash = href.hash])
    ELSE IF Parses(href) THEN Serialize(href) ELSE Null

\* new URL(u).hostname
Hostname(u) == u.host

\* IsAllowed comparing the end of the host name with the domain alone, without the dot
IsAllowedBySuffix(h, allowedDomains) ==
    \E k \in 1..Len(allowedDomains) : EndsWith(h, allowedDomains[k])

\* allowedDomains.some(domain => h === domain || h.endsWith('.' + domain))
IsAllowed(h, allowedDomains) ==
    \E k \in 1..Len(allowedDomains) :
        \/ h = allowedDomains[k]
        \/ EndsWith(h, <<".">> \o allowedDomains[k])

Includes(seq, x) == \E k \in 1..Len(seq) : seq[k] = x

\* x || d on numbers: 0 (like undefined) is falsy
OrDefault(x, d) == IF x = 0 THEN d ELSE x

----------------------------------------------------------------------------
(* The web the crawler sees *)

ExampleCom == <<"e", ".", "c">>
SubExample == <<"s", ".", "e", ".", "c">>
NotExample == <<"n", "e", ".", "c">>
OtherOrg   == <<"o", ".", "g">>
FanCom     == <<"f", ".", "c">>

Home     == Url("http", ExampleCom, "/", "")
Page     == Url("http", ExampleCom, "/p", "")
SubHome  == Url("http", SubExample, "/", "")
SubPage  == Url("http", SubExample, "/p", "")
Ext1     == Url("http", NotExample, "/", "")
Ext2     == Url("https", OtherOrg, "/", "")
FanHome  == Url("http", FanCom, "/", "")
Fan1     == Url("https", OtherOrg, "/f1", "")
Fan2     == Url("https", OtherOrg, "/f2", "")
Fan3     == Url("https", OtherOrg, "/f3", "")
Fan4     == Url("https", OtherOrg, "/f4", "")
Fan5     == Url("https", OtherOrg, "/f5", "")
Fan6     == Url("https", OtherOrg, "/f6", "")

\* href attributes as they stand in the markup
EmptyHref   == Url("rel", <<>>, "", "")           \* href="" (falsy)
RelPage     == Url("rel", <<>>, "/p", "")         \* href="/p"
TopAnchor   == Url("rel", <<>>, "", "top")        \* href="#top"
PageAnchor  == Url("http", ExampleCom, "/p", "s") \* href="http://e.c/p#s"
HomeNoSlash == Url("http", ExampleCom, "", "")    \* "http://e.c"
MailTo      == Url("mailto", <<>>, "a@e.c", "")   \* href="mailto:a@e.c"
BadHref     == Url("http", <<>>, "", "")          \* href="http://", which new URL rejects
FtpHome     == Url("ftp", ExampleCom, "/", "")    \* "ftp://e.c/"
HttpxHome   == Url("httpx", ExampleCom, "/", "")  \* "httpx://e.c/", which new URL accepts

\* what axios.get resolves to (err: it rejects instead)
Html(links)   == [err |-> FALSE, status |-> 200, html |-> TRUE,  links |-> links]
Plain(status) == [err |-> FALSE, status |-> status, html |-> FALSE, links |-> <<>>]
Failure       == [err |-> TRUE,  status |-> ErrorMarker, html |-> FALSE, links |-> <<>>]

HomeBody == <<PageAnchor, RelPage, TopAnchor, EmptyHref, MailTo, SubHome, Ext1, Ext1>>
PageBody == <<HomeNoSlash, Ext1, Ext2, SubHome, BadHref>>
SubBody  == <<RelPage, Ext2>>
FanBody  == <<Fan1, Fan2, Fan3, Fan4, Fan5, Fan6>>

\* the responses a GET of a frontier page may bring
PageResponses(u) ==
    CASE u = Home    -> {Html(HomeBody), Plain(200), Plain(404), Failure}
      [] u = Page    -> {Html(PageBody), Plain(500)}
      [] u = SubHome -> {Html(SubBody), Failure}
      [] u = SubPage -> {Html(<<Home, TopAnchor>>), Plain(404)}
      [] u = FanHome -> {Html(FanBody)}
      [] OTHER       -> {Failure}

\* the outcomes a HEAD of an external link may bring (ErrorMarker: it rejects)
HeadResults(u) ==
    CASE u = Ext1  -> {200, 404, MethodNotAllowed, ErrorMarker}
      [] u = Ext2  -> {200, 500}
      [] u = Fan1  -> {200, 503}
      [] OTHER     -> {200}

\* the outcomes of the fallback GET
GetResults(u) ==
    CASE u = Ext1  -> {200, 404, ErrorMarker}
      [] u = Ext2  -> {200}
      [] OTHER     -> {503}

----------------------------------------------------------------------------
(* class Crawler *)

\* options as the client sends them; 0 and <<>> stand for an absent field
Options(maxPages, maxDepth, allowedDomains) ==
    [maxPages |-> maxPages, maxDepth |-> maxDepth, allowedDomains |-> allowedDomains]

NoOptions == Options(0, 0, <<>>)

\* constructor(startUrl, socket, options)
NewCrawler(startUrl, options) ==
    LET start   == normalizeUrl(startUrl)
        domains == options.allowedDomains
    IN  [ startUrl             |-> start,
          visited              |-> {},
          checkedLinks         |-> {},
          queue                |-> << [url |-> start, depth |-> 0] >>,
          brokenLinks          |-> <<>>,
          isRunning            |-> FALSE,
          maxPages             |-> OrDefault(options.maxPages, DefaultMaxPages),
          maxDepth             |-> OrDefault(options.maxDepth, DefaultMaxDepth),
          allowedDomains       |-> IF Parses(start) /\ ~Includes(domains, Hostname(start))
                                   THEN Append(domains, Hostname(start))
                                   ELSE domains,
          crawledCount         |-> 0,
          activeRequests       |-> 0,
          externalCheckQueue   |-> <<>>,
          isProcessingExternal |-> FALSE,
          \* where start() stands: "new", "fetch", "delay", "drainwait", "done", "returned"
          pc                   |-> "new",
          \* the frontier item whose GET is awaited
          cur                  |-> [url |-> Null, depth |-> 0],
          \* the checkExternalLink() calls awaiting a response
          inflight             |-> {},
          \* events emitted on the socket by this crawler
          progress             |-> <<>>,
          finished             |-> <<>>,
          errors               |-> 0,
          \* history: stop requested; the last page response; every page response;
          \* the number of queue.shift(); links routed; verifications dispatched and
          \* completed
          stopCalled           |-> FALSE,
          lastFetch            |-> [url |-> Null, err |-> FALSE, status |-> 0, html |-> FALSE],
          fetched              |-> {},
          dequeued             |-> 0,
          routed               |-> <<>>,
          dispatched           |-> <<>>,
          verified             |-> {} ]

\* reportBroken that emits the event without this.brokenLinks.push(item)
reportBrokenUnrecorded(c, url, status, source) == c

\* reportBroken(url, status, source)
reportBroken(c, url, status, source) ==
    [c EXCEPT !.brokenLinks = Append(@, [url |-> url, status |-> status, source |-> source])]

\* DrainCondition with the ceiling compared by <=
DrainConditionOffByOne(c) ==
    Len(c.externalCheckQueue) > 0 /\ c.activeRequests <= maxConcurrency /\ c.isRunning

\* DrainCondition without the test of this.isRunning
DrainConditionIgnoringStop(c) ==
    Len(c.externalCheckQueue) > 0 /\ c.activeRequests < maxConcurrency

\* the condition of the while loop of processExternalQueue()
DrainCondition(c) ==
    Len(c.externalCheckQueue) > 0 /\ c.activeRequests < maxConcurrency /\ c.isRunning

\* Dispatch that reads the head of the pending list without removing it
DispatchWithoutShift(c) ==
    LET item == Head(c.externalCheckQueue)
        id   == Len(c.dispatched) + 1
    IN  [c EXCEPT
            !.activeRequests = @ + 1,
            !.inflight = @ \cup {[id |-> id, url |-> item.url, source |-> item.source,
                                  phase |-> "head", head |-> 0]},
            !.dispatched = Append(@, item)]

\* one turn of the while loop of processExternalQueue(): shift, count, dispatch
Dispatch(c) ==
    LET item == Head(c.externalCheckQueue)
        id   == Len(c.dispatched) + 1
    IN  [c EXCEPT
            !.externalCheckQueue = Tail(@),
            !.activeRequests = @ + 1,
            !.inflight = @ \cup {[id |-> id, url |-> item.url, source |-> item.source,
                                  phase |-> "head", head |-> 0]},
            !.dispatched = Append(@, item)]

\* the while loop of processExternalQueue(); d names the state after one turn, so that
\* it is computed once
RECURSIVE DrainLoop(_)
DrainLoop(c) ==
    IF DrainCondition(c)
    THEN CHOOSE r \in {DrainLoop(d) : d \in {Dispatch(c)}} : TRUE
    ELSE c

\* processExternalQueue(): it has no await, so it runs to its end when called
processExternalQueue(c) ==
    IF c.isProcessingExternal THEN c
    ELSE [DrainLoop([c EXCEPT !.isProcessingExternal = TRUE])
             EXCEPT !.isProcessingExternal = FALSE]

\* AlreadyChecked looking the link up in the visited pages instead
AlreadyCheckedInVisited(c, absoluteUrl) == absoluteUrl \in c.visited

\* this.checkedLinks.has(absoluteUrl)
AlreadyChecked(c, absoluteUrl) == absoluteUrl \in c.checkedLinks

\* this.queue.some(item => item.url === absoluteUrl)
InQueue(c, url) == \E k \in 1..Len(c.queue) : c.queue[k].url = url

\* MayEnqueue without the test of this.visited
MayEnqueueIgnoringVisited(c, absoluteUrl) == ~InQueue(c, absoluteUrl)

\* !this.visited.has(absoluteUrl) && !inQueue
MayEnqueue(c, absoluteUrl) == absoluteUrl \notin c.visited /\ ~InQueue(c, absoluteUrl)

\* Push giving the link the depth of the page it was found on
PushSameDepth(queue, absoluteUrl, depth) ==
    Append(queue, [url |-> absoluteUrl, depth |-> depth])

\* Push at the head of the frontier
PushFront(queue, absoluteUrl, depth) ==
    <<[url |-> absoluteUrl, depth |-> depth + 1]>> \o queue

\* this.queue.push({ url: absoluteUrl, depth: depth + 1 })
Push(queue, absoluteUrl, depth) ==
    Append(queue, [url |-> absoluteUrl, depth |-> depth + 1])

\* the body of links.each for one anchor of the page currentUrl fetched at depth
ExtractLink(c, href, currentUrl, depth) ==
    IF href = EmptyHref THEN c
    ELSE LET absoluteUrl == normalizeUrl(Resolve(href, currentUrl))
         IN  IF absoluteUrl = Null \/ ~StartsWithHttp(absoluteUrl) THEN c
             ELSE IF AlreadyChecked(c, absoluteUrl) THEN c
             ELSE LET c1 == [c EXCEPT !.checkedLinks = @ \cup {absoluteUrl}]
                  IN  IF IsAllowed(Hostname(absoluteUrl), c1.allowedDomains)
                      THEN IF MayEnqueue(c1, absoluteUrl)
                               THEN [c1 EXCEPT
                                       !.queue = Push(@, absoluteUrl, depth),
                                       !.routed = Append(@, [url |-> absoluteUrl, to |-> "frontier",
                                                           source |-> currentUrl, depth |-> depth])]
                               ELSE c1
                      ELSE processExternalQueue([c1 EXCEPT
                               !.externalCheckQueue = Append(@, [url |-> absoluteUrl, source |-> currentUrl]),
                               !.routed = Append(@, [url |-> absoluteUrl, to |-> "external",
                                                     source |-> currentUrl, depth |-> depth])])

\* links.each((i, link) => ...) over the anchors of the page, in document order; d
\* names the state after the first anchor, so that it is computed once
RECURSIVE ExtractLinks(_, _, _, _)
ExtractLinks(c, links, currentUrl, depth) ==
    IF links = <<>> THEN c
    ELSE CHOOSE r \in {ExtractLinks(d, Tail(links), currentUrl, depth) :
                          d \in {ExtractLink(c, Head(links), currentUrl, depth)}} : TRUE

\* socket.emit('finished', { brokenLinks }) and the end of start()
Finish(c) ==
    [c EXCEPT !.finished = Append(@, c.brokenLinks), !.pc = "done"]

\* DrainWaitCondition without the break on !this.isRunning
DrainWaitConditionNoBreak(c) ==
    c.activeRequests > 0 \/ Len(c.externalCheckQueue) > 0

\* DrainWaitCondition without the test of this.activeRequests
DrainWaitConditionQueueOnly(c) ==
    Len(c.externalCheckQueue) > 0 /\ c.isRunning

\* the drain-wait loop goes on: its while condition holds and it does not break
DrainWaitCondition(c) ==
    (c.activeRequests > 0 \/ Len(c.externalCheckQueue) > 0) /\ c.isRunning

\* DrainWait that emits 'finished' without waiting for the external checks
DrainWaitSkipped(c) == Finish(c)

\* the drain-wait loop of start(), from its condition to its await or its end
DrainWait(c) ==
    IF DrainWaitCondition(c)
    THEN [c EXCEPT !.pc = "drainwait"]
    ELSE Finish(c)

\* LoopCondition with the page budget compared by <=
LoopConditionOffByOne(c) ==
    Len(c.queue) > 0 /\ c.isRunning /\ c.crawledCount <= c.maxPages

\* the condition of the frontier loop
LoopCondition(c) ==
    Len(c.queue) > 0 /\ c.isRunning /\ c.crawledCount < c.maxPages

\* Visit without this.visited.add(currentUrl)
VisitUnmarked(c, item) ==
    [c EXCEPT
        !.crawledCount = @ + 1,
        !.progress = Append(@, [url |-> item.url, count |-> c.crawledCount + 1,
                                queueSize |-> Len(c.queue), depth |-> item.depth]),
        !.cur = item,
        !.pc = "fetch"]

\* a dequeued item is marked visited, counted and announced, and its GET is issued
Visit(c, item) ==
    [c EXCEPT
        !.visited = @ \cup {item.url},
        !.crawledCount = @ + 1,
        !.progress = Append(@, [url |-> item.url, count |-> c.crawledCount + 1,
                                queueSize |-> Len(c.queue), depth |-> item.depth]),
        !.cur = item,
        !.pc = "fetch"]

\* the frontier loop of start(), from its condition to the awaited GET of the next page
RECURSIVE MainLoop(_)
MainLoop(c) ==
    IF LoopCondition(c)
    THEN LET item == Head(c.queue)
             c1   == [c EXCEPT !.queue = Tail(@), !.dequeued = @ + 1]
         IN  IF item.url \in c.visited THEN MainLoop(c1)
             ELSE Visit(c1, item)
    ELSE DrainWait(c)

\* start(), up to its first await
Start(c) ==
    IF c.startUrl = Null
    THEN [c EXCEPT !.errors = @ + 1, !.pc = "returned"]
    ELSE MainLoop([c EXCEPT !.isRunning = TRUE])

\* DepthReached compared by >
DepthReachedOffByOne(c) == c.cur.depth > c.maxDepth

\* depth >= this.maxDepth: the page is not mined for links
DepthReached(c) == c.cur.depth >= c.maxDepth

\* start() resumed with the response of the awaited GET, up to its next await
AfterFetch(c, resp) ==
    LET c0 == [c EXCEPT !.lastFetch = [url |-> c.cur.url, err |-> resp.err,
                                       status |-> resp.status, html |-> resp.html],
                        !.fetched = @ \cup {[url |-> c.cur.url, resp |-> resp]}]
    IN  IF resp.err
        THEN [reportBroken([c0 EXCEPT !.errors = @ + 1], c.cur.url, ErrorMarker, SeedSource)
                 EXCEPT !.pc = "delay"]
        ELSE IF resp.status >= BrokenFrom
        THEN MainLoop(reportBroken(c0, c.cur.url, resp.status, SeedSource))
        ELSE IF ~resp.html THEN MainLoop(c0)
        ELSE IF DepthReached(c) THEN MainLoop(c0)
        ELSE [ExtractLinks(c0, resp.links, c.cur.url, c.cur.depth) EXCEPT !.pc = "delay"]

\* the .finally() callback of a dispatched checkExternalLink()
Settle(c, v, get) ==
    processExternalQueue([c EXCEPT
        !.activeRequests = @ - 1,
        !.inflight = {w \in @ : w.id # v.id},
        !.verified = @ \cup {[id |-> v.id, url |-> v.url, source |-> v.source,
                              head |-> v.head, get |-> get]}])

\* NeedsFallback without the exemption of 405
NeedsFallbackAlways(status) == status >= BrokenFrom

\* response.status >= 400 && response.status !== 405
NeedsFallback(status) == status >= BrokenFrom /\ status # MethodNotAllowed

\* checkExternalLink() resumed with the outcome of the awaited HEAD
AfterHead(c, v, result) ==
    LET v1 == [v EXCEPT !.head = result]
    IN  IF result = ErrorMarker
        THEN Settle(reportBroken(c, v.url, ErrorMarker, v.source), v1, 0)
        ELSE IF NeedsFallback(result)
        THEN [c EXCEPT !.inflight = {w \in @ : w.id # v.id} \cup {[v1 EXCEPT !.phase = "get"]}]
        ELSE IF result >= BrokenFrom
        THEN Settle(reportBroken(c, v.url, result, v.source), v1, 0)
        ELSE Settle(c, v1, 0)

\* checkExternalLink() resumed with the outcome of the awaited fallback GET
AfterGet(c, v, result) ==
    IF result = ErrorMarker
    THEN Settle(reportBroken(c, v.url, ErrorMarker, v.source), v, result)
    ELSE IF result >= BrokenFrom
    THEN Settle(reportBroken(c, v.url, result, v.source), v, result)
    ELSE Settle(c, v, result)

----------------------------------------------------------------------------
(* The commands a client sends *)

\* socket.emit('start-crawl', url) and socket.emit('start-crawl', {url, options})
StringData(url)          == [isString |-> TRUE,  url |-> url, options |-> NoOptions]
ObjectData(url, options) == [isString |-> FALSE, url |-> url, options |-> options]

\* commands that are rejected, or start a crawl of one page with at most one link to verify
LightInputs ==
    { StringData(SubPage), StringData(FtpHome), StringData(BadHref), StringData(HttpxHome) }

\* commands that start a crawl of the whole site
HeavyInputs ==
    { StringData(HomeNoSlash),
      ObjectData(Home, Options(2, 1, <<>>)),
      ObjectData(PageAnchor, Options(1, 2, <<ExampleCom>>)),
      ObjectData(Home, Options(-1, 2, <<>>)),
      ObjectData(Home, Options(3, -1, <<>>)),
      StringData(FanHome) }

StartInputs == LightInputs \cup HeavyInputs

Cost(data) == IF data \in HeavyInputs THEN 2 ELSE 1

RECURSIVE Load(_)
Load(received) ==
    IF received = <<>> THEN 0 ELSE Cost(Head(received)) + Load(Tail(received))

MayStart(data) == Load(starts) + Cost(data) <= MaxLoad

----------------------------------------------------------------------------
(* State machine *)

Init ==
    /\ crawlers = <<>>
    /\ crawler = 0
    /\ connected = TRUE
    /\ starts = <<>>
    /\ socketErrors = 0

\* Stopped that leaves the running flag of the crawler as it is
StoppedNot(cs, i) == cs

\* crawler.isRunning = false, when a crawler exists
Stopped(cs, i) ==
    IF i = 0 THEN cs
    ELSE [cs EXCEPT ![i].isRunning = FALSE, ![i].stopCalled = TRUE]

\* socket.on('start-crawl', data => ...)
StartCrawl(data) ==
    /\ connected
    /\ MayStart(data)
    /\ starts' = Append(starts, data)
    /\ LET url     == data.url
           options == data.options
           cs      == Stopped(crawlers, crawler)
       IN  IF ~StartsWithHttp(url)
           THEN /\ crawlers' = cs
                /\ socketErrors' = socketErrors + 1
                /\ UNCHANGED crawler
           ELSE /\ crawlers' = Append(cs, Start(NewCrawler(url, options)))
                /\ crawler' = Len(cs) + 1
                /\ UNCHANGED socketErrors
    /\ UNCHANGED connected

\* socket.on('stop-crawl', ...)
StopCrawl ==
    /\ connected
    /\ crawlers' = Stopped(crawlers, crawler)
    /\ UNCHANGED <<crawler, connected, starts, socketErrors>>

\* socket.on('disconnect', ...)
Disconnect ==
    /\ connected
    /\ connected' = FALSE
    /\ crawlers' = Stopped(crawlers, crawler)
    /\ UNCHANGED <<crawler, starts, socketErrors>>

\* the awaited axios.get of crawler i settles
FetchComplete(i) ==
    /\ i \in DOMAIN crawlers
    /\ crawlers[i].pc = "fetch"
    /\ \E resp \in PageResponses(crawlers[i].cur.url) :
          crawlers' = [crawlers EXCEPT ![i] = AfterFetch(@, resp)]
    /\ UNCHANGED <<crawler, connected, starts, socketErrors>>

\* the 500 ms politeness timer of crawler i fires
DelayDone(i) ==
    /\ i \in DOMAIN crawlers
    /\ crawlers[i].pc = "delay"
    /\ crawlers' = [crawlers EXCEPT ![i] = MainLoop(@)]
    /\ UNCHANGED <<crawler, connected, starts, socketErrors>>

\* the 500 ms timer of the drain-wait loop of crawler i fires
DrainPoll(i) ==
    /\ i \in DOMAIN crawlers
    /\ crawlers[i].pc = "drainwait"
    /\ crawlers' = [crawlers EXCEPT ![i] = DrainWait(processExternalQueue(@))]
    /\ UNCHANGED <<crawler, connected, starts, socketErrors>>

\* the awaited axios.head of a verification of crawler i settles
HeadComplete(i) ==
    /\ i \in DOMAIN crawlers
    /\ \E v \in crawlers[i].inflight :
          /\ v.phase = "head"
          /\ \E result \in HeadResults(v.url) :
                crawlers' = [crawlers EXCEPT ![i] = AfterHead(@, v, result)]
    /\ UNCHANGED <<crawler, connected, starts, socketErrors>>

\* the awaited fallback axios.get of a verification of crawler i settles
GetComplete(i) ==
    /\ i \in DOMAIN crawlers
    /\ \E v \in crawlers[i].inflight :
          /\ v.phase = "get"
          /\ \E result \in GetResults(v.url) :
                crawlers' = [crawlers EXCEPT ![i] = AfterGet(@, v, result)]
    /\ UNCHANGED <<crawler, connected, starts, socketErrors>>

Sessions == 1..MaxLoad

Next ==
    \/ \E data \in StartInputs : StartCrawl(data)
    \/ StopCrawl
    \/ Disconnect
    \/ \E i \in Sessions : FetchComplete(i)
    \/ \E i \in Sessions : DelayDone(i)
    \/ \E i \in Sessions : DrainPoll(i)
    \/ \E i \in Sessions : HeadComplete(i)
    \/ \E i \in Sessions : GetComplete(i)

Spec == Init /\ [][Next]_vars

\* a pending request settles or a pending timer fires
Settles ==
    \E i \in Sessions :
        FetchComplete(i) \/ DelayDone(i) \/ DrainPoll(i) \/ HeadComplete(i) \/ GetComplete(i)

\* requests settle (axios timeouts: 10 s for a page, 5 s for a link check) and timers
\* fire: while one is pending, one of them is eventually served; the client is free to
\* send nothing
Fairness == WF_vars(Settles)

FairSpec == Spec /\ Fairness

----------------------------------------------------------------------------
(* Properties *)

Max(a, b) == IF a >= b THEN a ELSE b

Crawlers == DOMAIN crawlers

\* C1 as stated: in every reachable state, the pages-crawled counter of every session
\* is at most the maxPages of its configuration, whatever value the client supplied.
C1_CountWithinAnyMaxPages ==
    \A i \in Crawlers : crawlers[i].crawledCount <= crawlers[i].maxPages

\* C1 amended: the pages-crawled counter never exceeds maxPages when maxPages is not
\* negative (a client-supplied positive value, or the default 50); under a negative
\* client-supplied maxPages no page is crawled and the counter stays 0.
C1_CountWithinBudget ==
    \A i \in Crawlers : crawlers[i].crawledCount <= Max(crawlers[i].maxPages, 0)

\* the page budget is what ends the frontier loop: it is used up with pages still queued
C1_Witness ==
    \E i \in Crawlers :
        /\ crawlers[i].crawledCount = crawlers[i].maxPages
        /\ crawlers[i].pc = "done"
        /\ ~crawlers[i].stopCalled
        /\ Len(crawlers[i].queue) > 0

\* C2: the progress events of one session never carry the same url twice.
C2_ProgressUrlsDistinct ==
    \A i \in Crawlers :
        \A a, b \in 1..Len(crawlers[i].progress) :
            a # b => crawlers[i].progress[a].url # crawlers[i].progress[b].url

\* the second page has been mined and links back to the seed, which is not fetched again
C2_Witness ==
    \E i \in Crawlers :
        /\ crawlers[i].lastFetch = [url |-> Page, err |-> FALSE, status |-> 200, html |-> TRUE]
        /\ crawlers[i].progress[1].url = Home
        /\ Home \in crawlers[i].checkedLinks
        /\ ~InQueue(crawlers[i], Home)
        /\ crawlers[i].pc = "delay"

\* C3: at most maxConcurrency (5) external verifications are in flight at any instant.
C3_InFlightAtMostFive ==
    \A i \in Crawlers :
        /\ Cardinality(crawlers[i].inflight) <= maxConcurrency
        /\ crawlers[i].activeRequests <= maxConcurrency

\* the ceiling is reached with a link still waiting in the external queue
C3_Witness ==
    \E i \in Crawlers :
        /\ Cardinality(crawlers[i].inflight) = maxConcurrency
        /\ Len(crawlers[i].externalCheckQueue) > 0
        /\ crawlers[i].isRunning

\* every frontier item of c, queued or dequeued, with its depth
FrontierDepths(c) ==
    {c.queue[k].depth : k \in 1..Len(c.queue)} \cup
    {c.progress[k].depth : k \in 1..Len(c.progress)}

\* C4 as stated: for every configured maxDepth, no frontier item ever has a depth
\* above maxDepth.
C4_DepthWithinAnyMaxDepth ==
    \A i \in Crawlers : \A d \in FrontierDepths(crawlers[i]) : d <= crawlers[i].maxDepth

\* links are routed only from pages dequeued at a depth below maxDepth, and no frontier
\* item lies deeper than maxDepth, the seed's depth 0 apart
C4_DepthInvariant ==
    \A i \in Crawlers :
        /\ \A k \in 1..Len(crawlers[i].routed) :
              crawlers[i].routed[k].depth < crawlers[i].maxDepth
        /\ \A d \in FrontierDepths(crawlers[i]) : d <= Max(crawlers[i].maxDepth, 0)

\* while the GET of a page at depth >= maxDepth is awaited and when it settles, nothing
\* is added to the checked links, the frontier or the external queue
C4_DeepPageAddsNothing ==
    \A i \in Crawlers :
        (crawlers[i].pc = "fetch" /\ crawlers[i].cur.depth >= crawlers[i].maxDepth) =>
            /\ crawlers'[i].checkedLinks = crawlers[i].checkedLinks
            /\ crawlers'[i].routed = crawlers[i].routed
            /\ Len(crawlers'[i].queue) <= Len(crawlers[i].queue)
            /\ Len(crawlers'[i].externalCheckQueue) <= Len(crawlers[i].externalCheckQueue)

\* C4 amended: links are extracted only from pages dequeued with depth < maxDepth; a
\* page dequeued at depth >= maxDepth is fetched but adds nothing to the frontier or the
\* external queue; no frontier item has a depth above maxDepth when maxDepth is not
\* negative (under a negative client-supplied maxDepth the seed still enters at depth 0).
C4_DepthLimit ==
    []C4_DepthInvariant /\ [][C4_DeepPageAddsNothing]_vars

\* an HTML page dequeued at depth = maxDepth > 0 was fetched and none of its links
\* (Ext2 is linked from that page only) was looked at
C4_Witness ==
    \E i \in Crawlers :
        /\ crawlers[i].lastFetch = [url |-> Page, err |-> FALSE, status |-> 200, html |-> TRUE]
        /\ crawlers[i].maxDepth = 1
        /\ \E k \in 1..Len(crawlers[i].progress) :
              crawlers[i].progress[k] .url = Page /\ crawlers[i].progress[k].depth = 1
        /\ Ext2 \notin crawlers[i].checkedLinks

\* C5: a normalized URL is routed (to the frontier or to the external queue) at most
\* once per session, and only as it enters the checked links.
C5_RoutedAtMostOnce ==
    \A i \in Crawlers :
        /\ \A a, b \in 1..Len(crawlers[i].routed) :
              a # b => crawlers[i].routed[a].url # crawlers[i].routed[b].url
        /\ \A a \in 1..Len(crawlers[i].routed) :
              crawlers[i].routed[a].url \in crawlers[i].checkedLinks

\* Ext1 was routed from the seed page and the second page, which links to it again,
\* has been mined
C5_Witness ==
    \E i \in Crawlers :
        /\ crawlers[i].lastFetch = [url |-> Page, err |-> FALSE, status |-> 200, html |-> TRUE]
        /\ crawlers[i].pc = "delay"
        /\ \E k \in 1..Len(crawlers[i].routed) :
              /\ crawlers[i].routed[k].url = Ext1
              /\ crawlers[i].routed[k].source = Home

IsPrefix(s, t) == Len(s) <= Len(t) /\ s = SubSeq(t, 1, Len(s))

\* a session was started with a seed that normalizeUrl accepts
ValidSeed(i) == i \in Crawlers /\ crawlers[i].startUrl # Null

FinishedOnce(i) == i \in Crawlers /\ Len(crawlers[i].finished) = 1

\* 'finished' is emitted at most once, as start() ends, and its payload is the list of
\* broken links reported up to then
C6_AtMostOnce ==
    \A i \in Crawlers :
        /\ Len(crawlers[i].finished) <= 1
        /\ Len(crawlers[i].finished) = 1 =>
              /\ crawlers[i].pc = "done"
              /\ IsPrefix(crawlers[i].finished[1], crawlers[i].brokenLinks)

\* C6: if every fetch and every verification settles, every session started with a
\* valid seed eventually emits 'finished', and emits it exactly once, whether the crawl
\* runs to its end or is stopped on the way; the payload is the list of broken links
\* reported so far.
C6_FinishedExactlyOnce ==
    /\ []C6_AtMostOnce
    /\ \A i \in Sessions : ValidSeed(i) ~> FinishedOnce(i)

\* a session stopped with pages still in the frontier has emitted 'finished' with a
\* partial list: a verification in flight at the stop reported its link afterwards
C6_Witness ==
    \E i \in Crawlers :
        /\ crawlers[i].stopCalled
        /\ Len(crawlers[i].finished) = 1
        /\ Len(crawlers[i].queue) > 0
        /\ Len(crawlers[i].finished[1]) < Len(crawlers[i].brokenLinks)

\* C7: once stop was called on a session (stop-crawl, disconnect or a new start-crawl),
\* that session emits no further progress event, issues no new page GET and dispatches
\* no new external verification, and its running flag stays cleared; requests in flight
\* may settle.
C7_NoNewWorkAfterStop ==
    [][\A i \in Crawlers :
          crawlers[i].stopCalled =>
              /\ crawlers'[i].progress = crawlers[i].progress
              /\ crawlers'[i].dispatched = crawlers[i].dispatched
              /\ \A w \in crawlers'[i].inflight :
                    \E v \in crawlers[i].inflight : w.id = v.id /\ w.url = v.url
              /\ crawlers'[i].pc = "fetch" =>
                    crawlers[i].pc = "fetch" /\ crawlers'[i].cur = crawlers[i].cur
              /\ ~crawlers'[i].isRunning]_vars

\* a stopped session has ended with pages left in the frontier and links left in the
\* external queue that were never dispatched
C7_Witness ==
    \E i \in Crawlers :
        /\ crawlers[i].stopCalled
        /\ crawlers[i].pc = "done"
        /\ Len(crawlers[i].queue) > 0
        /\ Len(crawlers[i].externalCheckQueue) > 0

\* the broken-link reports of c about an external link
Reports(c, url) ==
    {k \in 1..Len(c.brokenLinks) :
        c.brokenLinks[k].url = url /\ c.brokenLinks[k].source # SeedSource}

\* C8: when the HEAD of an external URL returns 405, a GET follows before any report
\* about that URL, and no report is made if that GET returns 200.
C8_GetFollowsHead405 ==
    \A i \in Crawlers :
        \A v \in crawlers[i].verified :
            v.head = MethodNotAllowed =>
                /\ v.get # 0
                /\ v.get = 200 => Reports(crawlers[i], v.url) = {}

IsBroken(status) == status = ErrorMarker \/ status >= BrokenFrom

\* C9: for every HEAD and GET outcome: a failed HEAD is reported as an error without a
\* GET; a GET is issued exactly when the HEAD status is >= 400 and not 405, at most once,
\* and its outcome is then final; a final status >= 400 (or a failure) gives exactly one
\* record, whose source is the referring page; a final status < 400 gives none; nothing
\* is reported while the verification is in flight.
C9_VerifyOutcome ==
    \A i \in Crawlers :
        LET c == crawlers[i] IN
        /\ Cardinality({v.id : v \in c.verified \cup c.inflight}) = Len(c.dispatched)
        /\ Cardinality(c.verified) + Cardinality(c.inflight) = Len(c.dispatched)
        /\ \A v \in c.inflight :
              /\ Reports(c, v.url) = {}
              /\ v.phase = "head" => v.head = 0
              /\ v.phase = "get" => v.head >= BrokenFrom /\ v.head # MethodNotAllowed
        /\ \A v \in c.verified :
              LET final == IF v.get # 0 THEN v.get ELSE v.head IN
              /\ v.get # 0 <=> (v.head >= BrokenFrom /\ v.head # MethodNotAllowed)
              /\ v.source = c.dispatched[v.id].source
              /\ IF IsBroken(final)
                 THEN \E k \in 1..Len(c.brokenLinks) :
                         /\ Reports(c, v.url) = {k}
                         /\ c.brokenLinks[k] = [url |-> v.url, status |-> final, source |-> v.source]
                 ELSE Reports(c, v.url) = {}

\* one verification ended with a HEAD of 405, reported without a GET, and another was
\* rescued by the GET after a HEAD of 500
C9_Witness ==
    \E i \in Crawlers :
        /\ \E v \in crawlers[i].verified : v.head = MethodNotAllowed /\ v.get = 0
        /\ \E v \in crawlers[i].verified : v.head = 500 /\ v.get = 200

\* C10: a frontier page whose GET returns a status >= 400 or fails gives exactly one
\* record {url, status or error marker, source 'seed'}; nothing is extracted from it
\* (checked links, external queue and frontier gain nothing), and the traversal goes on
\* with the next frontier item.
C10_FailedPage ==
    [][\A i \in Crawlers :
          LET c == crawlers[i]
              d == crawlers'[i]
          IN  (d.lastFetch # c.lastFetch /\ IsBroken(d.lastFetch.status)) =>
                /\ d.lastFetch.url = c.cur.url
                /\ d.brokenLinks = Append(c.brokenLinks,
                      [url |-> c.cur.url, status |-> d.lastFetch.status, source |-> SeedSource])
                /\ d.checkedLinks = c.checkedLinks
                /\ d.externalCheckQueue = c.externalCheckQueue
                /\ d.routed = c.routed
                /\ d.dispatched = c.dispatched
                /\ IF d.lastFetch.err
                   THEN d.pc = "delay" /\ d.queue = c.queue
                   ELSE IF Len(c.queue) > 0 /\ c.isRunning /\ c.crawledCount < c.maxPages
                   THEN /\ d.pc = "fetch"
                        /\ d.cur = Head(c.queue)
                        /\ d.queue = Tail(c.queue)
                   ELSE d.pc \in {"drainwait", "done"} /\ d.queue = c.queue]_vars

\* the second page answered 500 and the GET of the next frontier item is awaited
C10_Witness ==
    \E i \in Crawlers :
        /\ crawlers[i].lastFetch = [url |-> Page, err |-> FALSE, status |-> 500, html |-> FALSE]
        /\ crawlers[i].pc = "fetch"
        /\ crawlers[i].cur.url = SubHome
        /\ Len(crawlers[i].brokenLinks) > 0
        /\ crawlers[i].brokenLinks[Len(crawlers[i].brokenLinks)] =
              [url |-> Page, status |-> 500, source |-> SeedSource]

ToSet(seq) == {seq[k] : k \in 1..Len(seq)}

\* the fixed backend as the session b met it: the answer to the GET of a page, to the
\* HEAD of a link and to the fallback GET of a link
PageOf(b, u) ==
    IF \E f \in b.fetched : f.url = u
    THEN (CHOOSE f \in b.fetched : f.url = u).resp
    ELSE Failure

HeadOf(b, u) ==
    IF \E v \in b.verified : v.url = u
    THEN (CHOOSE v \in b.verified : v.url = u).head
    ELSE ErrorMarker

GetOf(b, u) ==
    IF \E v \in b.verified : v.url = u /\ v.get # 0
    THEN (CHOOSE v \in b.verified : v.url = u /\ v.get # 0).get
    ELSE ErrorMarker

\* one step of the run in which every verification settles, oldest first, before start()
\* is resumed
ReplayStep(b, r) ==
    IF r.inflight # {}
    THEN LET v == CHOOSE w \in r.inflight : \A x \in r.inflight : w.id <= x.id
         IN  IF v.phase = "head"
             THEN AfterHead(r, v, HeadOf(b, v.url))
             ELSE AfterGet(r, v, GetOf(b, v.url))
    ELSE IF r.pc = "fetch" THEN AfterFetch(r, PageOf(b, r.cur.url))
    ELSE IF r.pc = "delay" THEN MainLoop(r)
    ELSE IF r.pc = "drainwait" THEN DrainWait(processExternalQueue(r))
    ELSE r

RECURSIVE Replay(_, _)
Replay(b, r) ==
    IF r.pc \in {"done", "returned"} /\ r.inflight = {} THEN r
    ELSE CHOOSE x \in {Replay(b, d) : d \in {ReplayStep(b, r)}} : TRUE

\* the session of b run again from its construction, same seed and options, against the
\* backend b met
Rerun(b) ==
    Replay(b, Start(NewCrawler(b.startUrl, Options(b.maxPages, b.maxDepth, b.allowedDomains))))

Answers(c) == {[url |-> v.url, head |-> v.head, get |-> v.get] : v \in c.verified}

\* a session that was not stopped has emitted 'finished'
Ended(c) == c.pc = "done" /\ ~c.stopCalled

\* C11: against a fixed backend, a session that is never stopped ends with the same set
\* of broken-link records and the same pages-crawled count as the run of the same seed
\* and options in which every verification settles at once, whatever the order and the
\* time in which its own verifications settled; hence any two such runs end alike.
C11_SameOutcome ==
    \A i \in Crawlers :
        Ended(crawlers[i]) =>
            LET c == crawlers[i]
                r == Rerun(c)
            IN  /\ r.fetched = c.fetched
                /\ Answers(r) = Answers(c)
                /\ ToSet(c.finished[1]) = ToSet(r.finished[1])
                /\ ToSet(c.brokenLinks) = ToSet(r.brokenLinks)
                /\ c.crawledCount = r.crawledCount

\* a session ended with two records reported in another order than in the rerun: the
\* second page failed before the verification of a link of the first page settled
C11_Witness ==
    \E i \in Crawlers :
        /\ Ended(crawlers[i])
        /\ Len(crawlers[i].finished[1]) >= 2
        /\ crawlers[i].finished[1] # Rerun(crawlers[i]).finished[1]

\* the links of a page that are new to the session: the resolvable http(s) links that
\* are not among seen, normalized, each once, in document order
RECURSIVE NewLinks(_, _, _)
NewLinks(links, base, seen) ==
    IF links = <<>> THEN <<>>
    ELSE LET u == normalizeUrl(Resolve(Head(links), base))
         IN  IF Head(links) = EmptyHref \/ u = Null \/ u.scheme \notin HttpSchemes \/ u \in seen
             THEN NewLinks(Tail(links), base, seen)
             ELSE <<u>> \o NewLinks(Tail(links), base, seen \cup {u})

\* every external work item submitted so far, in the order of submission
Submitted(c) == c.dispatched \o c.externalCheckQueue

\* the page response received in the step from c to d
Received(c, d) == CHOOSE f \in d.fetched \ c.fetched : TRUE

\* C12: when a page at depth d < maxDepth is mined, every resolvable http(s) link that
\* is not yet in checkedLinks enters checkedLinks and is routed by isAllowed: an allowed
\* link neither visited nor in the frontier is appended to the frontier tail with depth
\* d + 1, a link that is not allowed is submitted to the external queue with the page
\* as its source, and no link goes to both.
C12_RoutedByIsAllowed ==
    [][\A i \in Crawlers :
          LET c == crawlers[i]
              d == crawlers'[i]
          IN  (d.fetched # c.fetched /\ Received(c, d).resp.html /\ c.cur.depth < c.maxDepth) =>
                LET new == NewLinks(Received(c, d).resp.links, c.cur.url, c.checkedLinks)
                    Allowed(u) == IsAllowed(Hostname(u), c.allowedDomains)
                    Fresh(u) == Allowed(u) /\ u \notin c.visited /\ ~InQueue(c, u)
                    External(u) == ~Allowed(u)
                    toFrontier == SelectSeq(new, Fresh)
                    toExternal == SelectSeq(new, External)
                IN  /\ d.checkedLinks = c.checkedLinks \cup ToSet(new)
                    /\ d.queue = c.queue \o
                          [k \in 1..Len(toFrontier) |->
                              [url |-> toFrontier[k], depth |-> c.cur.depth + 1]]
                    /\ Submitted(d) = Submitted(c) \o
                          [k \in 1..Len(toExternal) |->
                              [url |-> toExternal[k], source |-> c.cur.url]]
                    /\ \A k \in 1..Len(d.queue) : \A m \in 1..Len(Submitted(d)) :
                          d.queue[k].url # Submitted(d)[m].url]_vars

\* the seed page, with two new internal links and one external link among its anchors,
\* was mined: two frontier entries of depth 1 and one external submission
C12_Witness ==
    \E i \in Crawlers :
        /\ crawlers[i].pc = "delay"
        /\ crawlers[i].lastFetch = [url |-> Home, err |-> FALSE, status |-> 200, html |-> TRUE]
        /\ crawlers[i].queue = <<[url |-> Page, depth |-> 1], [url |-> SubHome, depth |-> 1]>>
        /\ Submitted(crawlers[i]) = <<[url |-> Ext1, source |-> Home]>>

\* C13: in a session that is never stopped, 'finished' is emitted only after the
\* frontier loop has exited (frontier empty or page budget used up) and the external
\* scheduler is quiescent (nothing pending, nothing in flight); its payload is every
\* broken-link record of the session in report order, and no record follows it.
C13_FinishedAfterQuiescence ==
    \A i \in Crawlers :
        LET c == crawlers[i] IN
        (Len(c.finished) > 0 /\ ~c.stopCalled) =>
            /\ Len(c.queue) = 0 \/ c.crawledCount >= c.maxPages
            /\ c.pc = "done"
            /\ c.externalCheckQueue = <<>>
            /\ c.activeRequests = 0
            /\ c.inflight = {}
            /\ Cardinality(c.verified) = Len(c.dispatched)
            /\ c.finished[1] = c.brokenLinks

\* a session ended unstopped; its payload holds the record of a failed page and, after
\* it, the record of a link whose verification settled later
C13_Witness ==
    \E i \in Crawlers :
        LET c == crawlers[i] IN
        /\ Ended(c)
        /\ Len(c.finished[1]) >= 2
        /\ c.finished[1][1].source = SeedSource
        /\ c.finished[1][Len(c.finished[1])].source # SeedSource

\* the commands received so far whose url is no http or https URL that parses
InvalidStarts ==
    {k \in 1..Len(starts) :
        ~Parses(starts[k].url) \/ starts[k].url.scheme \notin HttpSchemes}

\* C14: a session whose seed is invalid (unparseable, or not http/https) reports an
\* error and never runs: its running flag is never set, it emits no progress,
\* broken-link or finished event and issues no fetch.
C14_InvalidSeedNeverRuns ==
    /\ \A i \in Crawlers :
          LET c == crawlers[i] IN
          (c.startUrl = Null \/ c.startUrl.scheme \notin HttpSchemes) =>
              /\ ~c.isRunning
              /\ c.pc = "returned"
              /\ c.errors = 1
              /\ c.progress = <<>>
              /\ c.brokenLinks = <<>>
              /\ c.finished = <<>>
              /\ c.fetched = {}
              /\ c.dispatched = <<>>
    /\ socketErrors + Cardinality({i \in Crawlers : crawlers[i].pc = "returned"})
          = Cardinality(InvalidStarts)

Running == {i \in Crawlers : crawlers[i].isRunning}

\* at most one instance on the channel has its running flag set, and it is the one the
\* handlers hold
C15_AtMostOneRunning ==
    /\ Cardinality(Running) <= 1
    /\ \A i \in Running : i = crawler

\* start-crawl clears the running flag of the prior instance as it constructs the next,
\* and a cleared running flag of a started instance is never set again
C15_ClearedStaysCleared ==
    /\ \A i \in Crawlers : ~crawlers[i].isRunning => ~crawlers'[i].isRunning
    /\ Len(crawlers') > Len(crawlers) => \A i \in Crawlers : ~crawlers'[i].isRunning

\* C15: on one channel, after any sequence of start-crawl, stop-crawl and disconnect
\* interleaved with crawl progress, at most one Crawler has its running flag set:
\* start-crawl clears the flag of the prior instance before the new one is constructed
\* and started, and a cleared flag is never set again on that instance.
C15_OneRunningInstance ==
    []C15_AtMostOneRunning /\ [][C15_ClearedStaysCleared]_vars

\* a second session runs while the first, replaced in the middle of its crawl, still
\* awaits a response with its flag cleared
C15_Witness ==
    /\ Len(crawlers) = 2
    /\ crawlers[1].pc = "fetch"
    /\ ~crawlers[1].isRunning
    /\ crawlers[2].isRunning
    /\ crawlers[2].pc = "fetch"

\* the host name h is the domain, or a label sequence followed by "." and the domain
DomainOrSubdomain(h, domain) ==
    \/ h = domain
    \/ /\ Len(h) > Len(domain) + 1
       /\ h[Len(h) - Len(domain)] = "."
       /\ \A k \in 1..Len(domain) : h[Len(h) - Len(domain) + k] = domain[k]

InAllowedDomains(c, u) ==
    \E k \in 1..Len(c.allowedDomains) : DomainOrSubdomain(Hostname(u), c.allowedDomains[k])

\* C16: every URL fetched by the frontier loop, and every URL in the frontier of a
\* session that started, has a host name that is an allowed domain or a strict subdomain
\* of one, the seed's host name being always allowed; a link whose host name is not
\* allowed never enters the frontier and is only submitted to the external scheduler.
C16_FrontierWithinAllowedDomains ==
    \A i \in Crawlers :
        LET c == crawlers[i] IN
        /\ c.startUrl # Null =>
              /\ Includes(c.allowedDomains, Hostname(c.startUrl))
              /\ \A k \in 1..Len(c.queue) : InAllowedDomains(c, c.queue[k].url)
        /\ \A k \in 1..Len(c.progress) : InAllowedDomains(c, c.progress[k].url)
        /\ \A f \in c.fetched : InAllowedDomains(c, f.url)
        /\ \A k \in 1..Len(Submitted(c)) : ~InAllowedDomains(c, Submitted(c)[k].url)
        /\ \A u \in c.checkedLinks :
              ~InAllowedDomains(c, u) =>
                  /\ ~InQueue(c, u)
                  /\ u \notin c.visited
                  /\ \E k \in 1..Len(Submitted(c)) : Submitted(c)[k].url = u

\* with e.c allowed, the page of the subdomain s.e.c was fetched, while the link to
\* ne.c, whose host name ends with the text e.c, was verified as an external link
C16_Witness ==
    \E i \in Crawlers :
        LET c == crawlers[i] IN
        /\ c.allowedDomains = <<ExampleCom>>
        /\ \E f \in c.fetched : f.url = SubHome
        /\ \E v \in c.verified : v.url = Ext1
        /\ EndsWith(NotExample, ExampleCom)

\* C17: between the end of the processing of one frontier item and the dequeue of the
\* next, the politeness delay always takes place, whatever the outcome of the item: the
\* next item is dequeued (and announced by a progress event) only as the 500 ms timer
\* fires, never in the step that handles the response of the previous page.
C17_DelayBeforeNextDequeue ==
    [][\A i \in Crawlers :
          crawlers'[i].dequeued > crawlers[i].dequeued => crawlers[i].pc = "delay"]_vars

\* the links routed to the external queue, as work items, in the order of routing
RECURSIVE ExternalRoutes(_)
ExternalRoutes(routed) ==
    IF routed = <<>> THEN <<>>
    ELSE IF Head(routed).to = "external"
         THEN <<[url |-> Head(routed).url, source |-> Head(routed).source]>>
                  \o ExternalRoutes(Tail(routed))
         ELSE ExternalRoutes(Tail(routed))

\* C18: the external scheduler never dispatches an item twice: the items handed to
\* verification, followed by the items still pending, are exactly the items submitted,
\* each once and in order, and every dispatch is one verification in flight or
\* completed; the draining guard is released after every drain attempt, so it is never
\* set when no drain loop is executing.
C18_NoDoubleDispatch ==
    \A i \in Crawlers :
        LET c == crawlers[i] IN
        /\ Submitted(c) = ExternalRoutes(c.routed)
        /\ \A a, b \in 1..Len(c.dispatched) : a # b => c.dispatched[a] # c.dispatched[b]
        /\ {v.id : v \in c.inflight} \cup {v.id : v \in c.verified} = 1..Len(c.dispatched)
        /\ {v.id : v \in c.inflight} \cap {v.id : v \in c.verified} = {}
        /\ \A v \in c.inflight \cup c.verified :
              v.url = c.dispatched[v.id].url /\ v.source = c.dispatched[v.id].source
        /\ c.activeRequests = Cardinality(c.inflight)
        /\ ~c.isProcessingExternal

\* six links were submitted while the page was mined, the sixth waited for a free slot
\* and was dispatched by the drain that a completion triggered; the drain-wait poll
\* then made a drain attempt that dispatched nothing
C18_Witness ==
    \E i \in Crawlers :
        LET c == crawlers[i] IN
        /\ Len(c.dispatched) = 6
        /\ c.externalCheckQueue = <<>>
        /\ Cardinality(c.verified) = 6
        /\ c.pc = "done"
        /\ ~c.stopCalled

NonDecreasing(depths) ==
    \A a, b \in 1..Len(depths) : a < b => depths[a] <= depths[b]

\* the depths of the items dequeued so far, followed by those of the items in the frontier
DepthsInOrder(c) ==
    [k \in 1..Len(c.progress) |-> c.progress[k].depth] \o
    [k \in 1..Len(c.queue) |-> c.queue[k].depth]

\* the seed followed by the links routed to the frontier, in the order of routing
RECURSIVE FrontierRoutes(_)
FrontierRoutes(routed) ==
    IF routed = <<>> THEN <<>>
    ELSE IF Head(routed).to = "frontier"
         THEN <<Head(routed).url>> \o FrontierRoutes(Tail(routed))
         ELSE FrontierRoutes(Tail(routed))

\* the pages dequeued so far followed by the pages in the frontier
UrlsInOrder(c) ==
    [k \in 1..Len(c.progress) |-> c.progress[k].url] \o
    [k \in 1..Len(c.queue) |-> c.queue[k].url]

\* the depth at which the page u was dequeued by the session c
DequeuedAt(c, u) ==
    {c.progress[k].depth : k \in {m \in 1..Len(c.progress) : c.progress[m].url = u}}

\* C19: the frontier is processed first in, first out, breadth first: pages are
\* dequeued in the order in which they were enqueued, the seed first and at depth 0,
\* every enqueued item has a depth one more than the page it was discovered on, the
\* depths of the items in the frontier are non-decreasing from head to tail and so are
\* the depths of the progress events.
C19_BreadthFirst ==
    \A i \in Crawlers :
        LET c == crawlers[i] IN
        /\ Len(c.progress) > 0 =>
              c.progress[1].url = c.startUrl /\ c.progress[1].depth = 0
        /\ UrlsInOrder(c) = <<c.startUrl>> \o FrontierRoutes(c.routed)
        /\ NonDecreasing(DepthsInOrder(c))
        /\ \A k \in 1..Len(c.routed) :
              c.routed[k].to = "frontier" =>
                  /\ DequeuedAt(c, c.routed[k].source) = {c.routed[k].depth}
                  /\ \A m \in 1..Len(c.queue) :
                        c.queue[m].url = c.routed[k].url =>
                            c.queue[m].depth = c.routed[k].depth + 1
                  /\ \A d \in DequeuedAt(c, c.routed[k].url) : d = c.routed[k].depth + 1

\* pages of depth 0, 1, 1 and 2 were dequeued in this order: the page of depth 2 was
\* discovered on the second page of depth 1
C19_Witness ==
    \E i \in Crawlers :
        LET c == crawlers[i] IN
        /\ Len(c.progress) = 4
        /\ [k \in 1..4 |-> c.progress[k].depth] = <<0, 1, 1, 2>>

\* C20: in every reachable state the frontier holds no two items with the same URL and
\* no URL that is already visited; so the 'already visited' skip at the dequeue is never
\* taken, every dequeue consumes page budget, and the pages-crawled counter equals the
\* size of the visited set.
C20_FrontierDisjointFromVisited ==
    \A i \in Crawlers :
        LET c == crawlers[i] IN
        /\ \A a, b \in 1..Len(c.queue) : a # b => c.queue[a].url # c.queue[b].url
        /\ \A k \in 1..Len(c.queue) : c.queue[k].url \notin c.visited
        /\ c.dequeued = c.crawledCount
        /\ c.dequeued = Len(c.progress)
        /\ c.crawledCount = Cardinality(c.visited)

\* the seed page and the second page were visited, each links to the other and the
\* second page was linked twice from the seed page; the frontier holds the one page left
C20_Witness ==
    \E i \in Crawlers :
        LET c == crawlers[i] IN
        /\ c.visited = {Home, Page}
        /\ c.lastFetch = [url |-> Page, err |-> FALSE, status |-> 200, html |-> TRUE]
        /\ {Home, Page} \subseteq c.checkedLinks
        /\ c.queue = <<[url |-> SubHome, depth |-> 1]>>
        /\ c.crawledCount = 2

====
